---- MODULE Spec2Model ----
(***************************************************************************)
(* Model of scripts/generate_summary.py: the ContextSummarizer class       *)
(* (generate, save, recover, auto_detect and their private helpers) and    *)
(* the three command paths of main().                                      *)
(*                                                                         *)
(* Python values are tagged records; a dict is a function over its string  *)
(* keys; a dataclass instance is the record of its fields.  An operation   *)
(* that can raise returns [exc |-> name] instead of [exc |-> "none", ...]. *)
(***************************************************************************)
EXTENDS Integers, Sequences, FiniteSets, TLC

VARIABLES
    agentsMd,     \* <root>/AGENTS.md
    projectJson,  \* <root>/config/project.json
    decisionsMd,  \* <root>/docs/tech_decisions.md
    srcFiles,     \* listing of <root>/src, in traversal order
    cfgExtra,     \* other files of <root>/config beside project.json
    rootExtra,    \* further entries of <root> the architecture probe looks for
    gitStatus,    \* outcome of `git status --short`
    psutil,       \* outcome of psutil.Process().memory_info()
    artifacts,    \* <root>/session_summary.json
    reports,      \* <root>/session_summary.md
    summary,      \* the ContextSummary built by the last generate()
    rendered,     \* the last _to_text() call: its local `lines`, and what it raised
    genResult,    \* how the last generate command ended
    recResult,    \* how the last recover command ended
    detResult     \* what the last auto_detect() returned

env == <<agentsMd, projectJson, decisionsMd, srcFiles, cfgExtra, rootExtra,
         gitStatus, psutil>>
vars == <<agentsMd, projectJson, decisionsMd, srcFiles, cfgExtra, rootExtra,
          gitStatus, psutil, artifacts, reports, summary, rendered, genResult,
          recResult, detResult>>

----------------------------------------------------------------------------
(* Bounds of the model *)

MaxMarks == 2       \* occurrences of a task marker in AGENTS.md
MaxEntries == 2     \* lines of docs/tech_decisions.md
MaxPy == 4          \* .py files under src
MaxOther == 4       \* other files under src
MaxCfg == 3         \* further .json files, and .yaml files, under config
MaxGit == 6         \* lines printed by git status
MaxChars == 5       \* characters of a short docs/tech_decisions.md
MaxLines == 12      \* bullet lines of a long docs/tech_decisions.md

Min(a, b) == IF a < b THEN a ELSE b
Max(a, b) == IF a > b THEN a ELSE b

RECURSIVE GCD(_, _)
GCD(a, b) == IF b = 0 THEN a ELSE GCD(b, a % b)

Prefix(s, n) == SubSeq(s, 1, Min(n, Len(s)))

RECURSIVE SelectIdx(_, _)
\* the indices i of s, ascending, with mark[i]
SelectIdx(n, mark) ==
    IF n = 0 THEN <<>>
    ELSE IF mark[n] THEN Append(SelectIdx(n - 1, mark), n)
         ELSE SelectIdx(n - 1, mark)

----------------------------------------------------------------------------
(* Python values *)

PyStr(s) == [t |-> "str", s |-> s]
PyInt(n) == [t |-> "int", n |-> n]
\* the double nearest to num/den
PyFloat(num, den) ==
    LET g == GCD(num, den) IN [t |-> "float", num |-> num \div g, den |-> den \div g]
PyList(items) == [t |-> "list", items |-> items]
PyDict(d) == [t |-> "dict", d |-> d]
PyNone == [t |-> "NoneType"]

Ok(v) == [exc |-> "none", val |-> v]
Raise(e) == [exc |-> e]

\* bool(v)
Truthy(v) ==
    CASE v.t = "str" -> v.s # ""
      [] v.t = "int" -> v.n # 0
      [] v.t = "float" -> v.num # 0
      [] v.t = "list" -> v.items # <<>>
      [] v.t = "dict" -> DOMAIN v.d # {}
      [] OTHER -> FALSE

\* str(v) as an f-string field shows it, for the values that occur in fields
PyFormat(v) ==
    CASE v.t = "str" -> v.s
      [] v.t = "int" -> ToString(v.n)
      [] OTHER -> "<" \o v.t \o ">"

----------------------------------------------------------------------------
(* json: the document model of a JSON text, and the two conversions *)

JString(s) == [j |-> "string", s |-> s]
\* a number literal: with a fraction part (frac) or without
JNumber(frac, num, den) == [j |-> "number", frac |-> frac, num |-> num, den |-> den]
JArray(items) == [j |-> "array", items |-> items]
JObject(members) == [j |-> "object", members |-> members]
JNull == [j |-> "null"]

RECURSIVE json_dumps(_)
json_dumps(v) ==
    CASE v.t = "str" -> JString(v.s)
      [] v.t = "int" -> JNumber(FALSE, v.n, 1)
      [] v.t = "float" -> JNumber(TRUE, v.num, v.den)
      [] v.t = "list" -> JArray([i \in 1..Len(v.items) |-> json_dumps(v.items[i])])
      [] v.t = "dict" -> JObject([k \in DOMAIN v.d |-> json_dumps(v.d[k])])
      [] OTHER -> JNull

RECURSIVE json_load_floats(_)
\* json.load with parse_int=float: every number literal is read as a float
json_load_floats(doc) ==
    CASE doc.j = "string" -> PyStr(doc.s)
      [] doc.j = "number" -> PyFloat(doc.num, doc.den)
      [] doc.j = "array" ->
            PyList([i \in 1..Len(doc.items) |-> json_load_floats(doc.items[i])])
      [] doc.j = "object" ->
            PyDict([k \in DOMAIN doc.members |-> json_load_floats(doc.members[k])])
      [] OTHER -> PyNone

RECURSIVE json_load(_)
json_load(doc) ==
    CASE doc.j = "string" -> PyStr(doc.s)
      [] doc.j = "number" ->
            IF doc.frac THEN PyFloat(doc.num, doc.den) ELSE PyInt(doc.num)
      [] doc.j = "array" -> PyList([i \in 1..Len(doc.items) |-> json_load(doc.items[i])])
      [] doc.j = "object" -> PyDict([k \in DOMAIN doc.members |-> json_load(doc.members[k])])
      [] OTHER -> PyNone

\* a file: missing, holding a JSON text, or holding text that is no JSON
Absent == [kind |-> "absent"]
Garbage == [kind |-> "garbage"]
JsonFile(doc) == [kind |-> "json", doc |-> doc]

----------------------------------------------------------------------------
(* The dataclasses *)

ProjectStatusFields ==
    {"name", "description", "phase", "total_tasks", "completed_tasks",
     "completion_rate", "pending_tasks"}

ContextSummaryFields ==
    {"version", "generated_at", "session_id", "project", "tech_decisions",
     "code_context", "conversation_history", "recovery_instructions"}

\* Cls(**kwargs) of a dataclass with the given fields, none of them defaulted
Construct(fields, kwargs) ==
    IF DOMAIN kwargs = fields THEN Ok(kwargs) ELSE Raise("TypeError")

\* dataclasses.asdict of an instance whose fields already hold plain values
asdict(obj) == PyDict(obj)

TechDecision(decision, status, reason) ==
    [decision |-> PyStr(decision), status |-> PyStr(status), reason |-> PyStr(reason)]

----------------------------------------------------------------------------
(* _load_project_status *)

\* the substrings of AGENTS.md the parser counts ("CHECKMARK" is the check-mark
\* sign U+2705, "RENWU" the two-character word U+4EFB U+52A1); other text is "text"
DoneMarks == {"[x]", "CHECKMARK"}
TaskWords == {"RENWU", "Task"}

Count(content, toks) == Cardinality({i \in DOMAIN content : content[i] \in toks})

DefaultProject ==
    [name |-> PyStr("Project"),
     description |-> PyStr("A coding project"),
     phase |-> PyInt(1),
     total_tasks |-> PyInt(50),
     completed_tasks |-> PyInt(0),
     pending_tasks |-> PyList(<<>>)]

\* dict.update(other) on a dict held as a function
DictUpdate(d, other) ==
    [k \in DOMAIN d \cup DOMAIN other |-> IF k \in DOMAIN other THEN other[k] ELSE d[k]]

\* the try block over AGENTS.md: open() or read() raising leaves the dict as it was
ParseAgents(project) ==
    IF agentsMd.kind = "text"
    THEN LET completed == Count(agentsMd.content, DoneMarks)
             total == Count(agentsMd.content, TaskWords)
         IN DictUpdate(project,
                [completed_tasks |-> PyInt(completed),
                 completion_rate |->
                    IF total > 0 THEN PyFloat(completed, Max(total, 1)) ELSE PyInt(0)])
    ELSE project

RECURSIVE UpdatePairs(_, _)
\* dict.update(iterable): each element has to be a pair; the first that is none
\* raises, with the pairs before it already stored
UpdatePairs(d, items) ==
    IF items = <<>> THEN d
    ELSE LET item == Head(items)
         IN IF item.t = "list" /\ Len(item.items) = 2
            THEN LET k == item.items[1]
                     key == IF k.t = "str" THEN k.s ELSE "<" \o k.t \o ">"
                 IN IF k.t \in {"str", "int", "float", "NoneType"}
                    THEN UpdatePairs(DictUpdate(d, key :> item.items[2]), Tail(items))
                    ELSE d
            ELSE IF item.t = "str" /\ Len(item.s) = 2
            THEN UpdatePairs(DictUpdate(d, SubSeq(item.s, 1, 1) :> PyStr(SubSeq(item.s, 2, 2))),
                             Tail(items))
            ELSE d

\* the try block over config/project.json: json.load() raising, or update()
\* raising on a value that is no mapping and no sequence of pairs, is swallowed
ApplyConfig(project) ==
    IF projectJson.kind = "json"
    THEN LET config == json_load(projectJson.doc)
         IN IF config.t = "dict" THEN DictUpdate(project, config.d)
            ELSE IF config.t = "list" THEN UpdatePairs(project, config.items)
            ELSE project
    ELSE project

_load_project_status ==
    Construct(ProjectStatusFields, ApplyConfig(ParseAgents(DefaultProject)))

----------------------------------------------------------------------------
(* _load_tech_decisions *)

default_decisions ==
    <<TechDecision("Standard architecture", "confirmed",
                   "Default decision for new projects")>>

MaxDecisions == 10

\* The document is the sequence of its characters, each a one-character string.

\* the characters the pattern's [-(bullet)] class accepts
IsBullet(ch) == ch \in {"-", "BULLET"}
\* \s
IsSpace(ch) == ch \in {" ", "\t", "\n", "\r"}
\* . (the pattern is compiled without DOTALL)
IsDot(ch) == ch # "\n"

RECURSIVE SpaceRun(_, _)
\* how many characters \s* can take from place i on
SpaceRun(content, i) ==
    IF i <= Len(content) /\ IsSpace(content[i]) THEN 1 + SpaceRun(content, i + 1) ELSE 0

RECURSIVE LineEnd(_, _)
\* the last place .+ can take from place i on (i - 1 when it can take nothing)
LineEnd(content, i) ==
    IF i <= Len(content) /\ IsDot(content[i]) THEN LineEnd(content, i + 1) ELSE i - 1

NoMatch == [found |-> FALSE]

\* the candidate of a set of candidates [at, ...] with the largest `at`
Last(cands) ==
    IF cands = {} THEN NoMatch ELSE CHOOSE c \in cands : \A o \in cands : o.at <= c.at
\* the one with the smallest
First(cands) ==
    IF cands = {} THEN NoMatch ELSE CHOOSE c \in cands : \A o \in cands : c.at <= o.at

\* \s*(.+) from place i: \s* gives characters back until .+ has one to take
MatchDetail(content, i) ==
    Last({[found |-> TRUE, at |-> i + j, to |-> LineEnd(content, i + j)] :
             j \in {j \in 0..SpaceRun(content, i) :
                        i + j <= Len(content) /\ IsDot(content[i + j])}})

\* a label of m characters from place p, with the detail that follows its colon
Labelled(content, p, m, detail) ==
    [found |-> detail.found, at |-> m, decision |-> SubSeq(content, p, p + m - 1),
     reason |-> IF detail.found THEN SubSeq(content, detail.at, detail.to) ELSE <<>>,
     end |-> IF detail.found THEN detail.to ELSE 0]

\* (.+?):\s*(.+) from place p: the shortest label the rest of the pattern follows
MatchLabel(content, p) ==
    First({c \in {Labelled(content, p, m, MatchDetail(content, p + m + 1)) :
                      m \in {m \in 1..(LineEnd(content, p) - p) : content[p + m] = ":"}} :
              c.found})

\* the whole pattern at place s: \s* takes the longest run that leaves a match
MatchAt(content, s) ==
    IF ~IsBullet(content[s]) THEN NoMatch
    ELSE Last({c \in {[at |-> k, m |-> MatchLabel(content, s + 1 + k)] :
                          k \in 0..SpaceRun(content, s + 1)} : c.m.found})

RECURSIVE FindAll(_, _)
\* the search after trying place pos, where the pattern gave `tried`
FindNext(content, pos, tried) ==
    IF tried = NoMatch THEN FindAll(content, pos + 1)
    ELSE <<[decision |-> tried.m.decision, reason |-> tried.m.reason]>>
             \o FindAll(content, tried.m.end + 1)

\* the matches from place pos on, leftmost first, none overlapping
FindAll(content, pos) ==
    IF pos > Len(content) THEN <<>>
    ELSE FindNext(content, pos, MatchAt(content, pos))

\* re.findall(pattern, content, re.MULTILINE): the (decision, reason) groups
FindPatterns(content) == FindAll(content, 1)

RECURSIVE LStrip(_)
LStrip(chars) ==
    IF chars # <<>> /\ IsSpace(Head(chars)) THEN LStrip(Tail(chars)) ELSE chars
RECURSIVE RStrip(_)
RStrip(chars) ==
    IF chars # <<>> /\ IsSpace(chars[Len(chars)])
    THEN RStrip(SubSeq(chars, 1, Len(chars) - 1)) ELSE chars
\* str.strip()
Strip(chars) == RStrip(LStrip(chars))

RECURSIVE Text(_)
\* the str of a sequence of characters
Text(chars) == IF chars = <<>> THEN "" ELSE Head(chars) \o Text(Tail(chars))

\* the loop over patterns[:10], and the return
DecisionsOf(patterns) ==
    IF patterns = <<>> THEN default_decisions
    ELSE [i \in 1..Len(patterns) |->
            TechDecision(Text(Strip(patterns[i].decision)), "confirmed",
                         Text(Strip(patterns[i].reason)))]

_load_tech_decisions ==
    IF decisionsMd.kind \in {"absent", "unreadable"} THEN default_decisions
    ELSE CHOOSE decisions \in
            {DecisionsOf(patterns) :
                patterns \in {Prefix(FindPatterns(decisionsMd.content), MaxDecisions)}} : TRUE

----------------------------------------------------------------------------
(* _load_code_context *)

SrcCap == 10
FilesCap == 15
ChangesCap == 5
PatternsCap == 5

\* Path.glob("src/**/*.py") and Path.glob("src/**/*"), files only
GlobSrcPy ==
    LET idx == SelectIdx(Len(srcFiles), [i \in 1..Len(srcFiles) |-> srcFiles[i].py])
    IN [i \in 1..Len(idx) |-> srcFiles[idx[i]].name]
GlobSrcAll == [i \in 1..Len(srcFiles) |-> srcFiles[i].name]

\* Path.glob("config/*.json") and Path.glob("config/*.yaml")
GlobCfgJson ==
    (IF projectJson.kind = "absent" THEN <<>> ELSE <<"config/project.json">>)
    \o [i \in 1..cfgExtra.json |-> "config/c" \o ToString(i) \o ".json"]
GlobCfgYaml == [i \in 1..cfgExtra.yaml |-> "config/y" \o ToString(i) \o ".yaml"]

\* the listing without the final slice
_list_current_files_unsliced ==
    Prefix(GlobSrcPy \o GlobSrcAll, SrcCap) \o GlobCfgJson \o GlobCfgYaml

_list_current_files ==
    LET files == Prefix(GlobSrcPy \o GlobSrcAll, SrcCap)
    IN Prefix(files \o GlobCfgJson \o GlobCfgYaml, FilesCap)

RECURSIVE DropBlankHead(_)
DropBlankHead(out) ==
    IF out # <<>> /\ Head(out).text = "" THEN DropBlankHead(Tail(out)) ELSE out
RECURSIVE DropBlankTail(_)
DropBlankTail(out) ==
    IF out # <<>> /\ out[Len(out)].text = ""
    THEN DropBlankTail(SubSeq(out, 1, Len(out) - 1)) ELSE out

\* stdout.decode().strip().split("\n"): the empty text splits into one empty line
StripSplit(out) ==
    LET body == DropBlankTail(DropBlankHead(out))
    IN IF body = <<>> THEN <<[pad |-> FALSE, text |-> ""]>> ELSE body

_get_recent_changes ==
    IF gitStatus.kind = "exit" /\ gitStatus.rc = 0
    THEN LET ls == Prefix(StripSplit(gitStatus.out), ChangesCap)
             idx == SelectIdx(Len(ls), [i \in 1..Len(ls) |-> ls[i].text # ""])
             changes == [i \in 1..Len(idx) |-> ls[idx[i]].text]
         IN Prefix(changes, ChangesCap)
    ELSE <<>>

Exists(name) ==
    CASE name = "AGENTS.md" -> agentsMd.kind # "absent"
      [] name = "src" -> srcFiles # <<>> \/ name \in rootExtra
      [] name = "config" ->
            projectJson.kind # "absent" \/ cfgExtra.json + cfgExtra.yaml > 0
            \/ name \in rootExtra
      [] name = "docs" -> decisionsMd.kind # "absent" \/ name \in rootExtra
      [] OTHER -> name \in rootExtra

ProbedDirs == <<"src", "tests", "config", "docs", "scripts">>
ProbedFiles ==
    <<[file |-> "requirements.txt", pattern |-> "Python project"],
      [file |-> "package.json", pattern |-> "Node.js project"],
      [file |-> "pyproject.toml", pattern |-> "Python (Poetry)"],
      [file |-> "docker-compose.yml", pattern |-> "Docker"],
      [file |-> "AGENTS.md", pattern |-> "OpenCode workflow"]>>

\* every label the probe would append, before the final slice
ArchCandidates ==
    LET di == SelectIdx(Len(ProbedDirs), [i \in 1..Len(ProbedDirs) |-> Exists(ProbedDirs[i])])
        fi == SelectIdx(Len(ProbedFiles),
                        [i \in 1..Len(ProbedFiles) |-> Exists(ProbedFiles[i].file)])
    IN [i \in 1..Len(di) |-> ProbedDirs[di[i]]]
       \o [i \in 1..Len(fi) |-> ProbedFiles[fi[i]].pattern]

_detect_architecture == Prefix(ArchCandidates, PatternsCap)

StrList(names) == PyList([i \in 1..Len(names) |-> PyStr(names[i])])

_load_code_context ==
    [current_files |-> StrList(_list_current_files),
     recent_changes |-> StrList(_get_recent_changes),
     architecture_patterns |-> StrList(_detect_architecture)]

_load_conversation_history ==
    [key_discussions |-> PyList(<<>>),
     confirmed_items |-> PyList(<<>>),
     pending_confirmations |-> PyList(<<>>)]

----------------------------------------------------------------------------
(* Formatting helpers *)

IsNumber(v) == v.t \in {"int", "float"}

\* round(100 * v), ties to even, for a number v >= 0
PercentOf(v) ==
    LET num == IF v.t = "int" THEN v.n ELSE v.num
        den == IF v.t = "int" THEN 1 ELSE v.den
        q == (100 * num) \div den
        r == (100 * num) % den
    IN IF 2 * r > den THEN q + 1
       ELSE IF 2 * r = den THEN q + (q % 2)
       ELSE q

\* format(v, ".0%") of a number
PercentStr(v) == ToString(PercentOf(v)) \o "%"

RECURSIVE Join(_, _)
\* sep.join(strs)
Join(sep, strs) ==
    IF strs = <<>> THEN ""
    ELSE IF Len(strs) = 1 THEN strs[1]
    ELSE strs[1] \o sep \o Join(sep, Tail(strs))

RECURSIVE Flatten(_)
Flatten(ss) == IF ss = <<>> THEN <<>> ELSE Head(ss) \o Flatten(Tail(ss))

\* seq[:n] of a str
StrPrefix(str, n) == SubSeq(str, 1, Min(n, Len(str)))

\* [x for x in items if mark[x's place]]
Select(items, mark) ==
    LET idx == SelectIdx(Len(items), mark)
    IN [i \in 1..Len(idx) |-> items[idx[i]]]

\* whether every dict of the list has the key
AllHave(items, key) == \A i \in 1..Len(items) : key \in DOMAIN items[i].d

----------------------------------------------------------------------------
(* Recovery instructions *)

_get_continue_from(project) ==
    IF Truthy(project.pending_tasks)
    THEN LET next_task == project.pending_tasks.items[1]
         IN IF {"id", "name"} \subseteq DOMAIN next_task.d
            THEN Ok("Task " \o PyFormat(next_task.d["id"]) \o ": "
                    \o PyFormat(next_task.d["name"]))
            ELSE Raise("KeyError")
    ELSE Ok("Phase " \o PyFormat(project.phase) \o " completion")

_get_key_context(project) ==
    IF IsNumber(project.completion_rate)
    THEN Ok(PyFormat(project.name) \o " - Phase " \o PyFormat(project.phase) \o ", "
            \o PercentStr(project.completion_rate) \o " complete")
    ELSE Raise("ValueError")

----------------------------------------------------------------------------
(* _to_json and _to_text *)

_to_json(s) == json_dumps(asdict(s))

PendingCap == 3
DecisionCap == 5
ReasonCap == 100
ShownFiles == 5
ShownChanges == 3
ShownHistory == 3

TaskLine(task) ==
    "- Task " \o PyFormat(task.d["id"]) \o ": " \o PyFormat(task.d["name"])

HasPriority(task, p) == task.d["priority"] = PyStr(p)

\* the lines of one priority bucket
BucketLines(tasks, p, title) ==
    LET bucket == Select(tasks, [i \in 1..Len(tasks) |-> HasPriority(tasks[i], p)])
        shown == Prefix(bucket, PendingCap)
    IN IF bucket # <<>>
       THEN <<title>> \o [i \in 1..Len(shown) |-> TaskLine(shown[i])]
       ELSE <<>>

PendingSection(tasks) ==
    IF Truthy(tasks)
    THEN <<"\n## Pending Tasks">>
         \o BucketLines(tasks.items, "high", ":red_circle: High Priority:")
         \o BucketLines(tasks.items, "medium", ":yellow_circle: Medium Priority:")
    ELSE <<>>

DecisionLines(decision) ==
    IF decision.d["status"] = PyStr("confirmed")
    THEN <<"- " \o PyFormat(decision.d["decision"])>>
         \o (IF Truthy(decision.d["reason"])
             THEN <<"  Reason: " \o StrPrefix(decision.d["reason"].s, ReasonCap)>>
             ELSE <<>>)
    ELSE <<>>

DecisionSection(decisions) ==
    IF Truthy(decisions)
    THEN LET first == Prefix(decisions.items, DecisionCap)
         IN <<"\n## Technical Decisions", ":check_mark: Confirmed:">>
            \o Flatten([i \in 1..Len(first) |-> DecisionLines(first[i])])
    ELSE <<>>

Bullets(list, cap) ==
    LET shown == Prefix(list.items, cap)
    IN [i \in 1..Len(shown) |-> "- " \o PyFormat(shown[i])]

Names(list) == [i \in 1..Len(list.items) |-> PyFormat(list.items[i])]

CodeSection(code) ==
    IF Truthy(code)
    THEN <<"\n## Code Context">>
         \o (IF Truthy(code.d["current_files"])
             THEN <<":file_folder: Current Files:">>
                  \o Bullets(code.d["current_files"], ShownFiles)
             ELSE <<>>)
         \o (IF Truthy(code.d["recent_changes"])
             THEN <<"\n:memo: Recent Changes:">>
                  \o Bullets(code.d["recent_changes"], ShownChanges)
             ELSE <<>>)
         \o (IF Truthy(code.d["architecture_patterns"])
             THEN <<"\n:triangular_ruler: Architecture: "
                    \o Join(", ", Names(code.d["architecture_patterns"]))>>
             ELSE <<>>)
    ELSE <<>>

HistorySection(history) ==
    IF Truthy(history)
    THEN <<"\n## Conversation History">>
         \o (IF Truthy(history.d["key_discussions"])
             THEN <<":speech_balloon: Key Discussions:">>
                  \o Bullets(history.d["key_discussions"], ShownHistory)
             ELSE <<>>)
         \o (IF Truthy(history.d["confirmed_items"])
             THEN <<"\n:check_mark: Confirmed:">>
                  \o Bullets(history.d["confirmed_items"], ShownHistory)
             ELSE <<>>)
         \o (IF Truthy(history.d["pending_confirmations"])
             THEN <<"\n:question: Pending:">>
                  \o Bullets(history.d["pending_confirmations"], ShownHistory)
             ELSE <<>>)
    ELSE <<>>

RecoverySection(recovery) ==
    <<"\n## Recovery Instructions", "\n:book: Read First:">>
    \o Bullets(recovery.d["read_first"], Len(recovery.d["read_first"].items))
    \o <<"\n:rocket: Continue from: " \o PyFormat(recovery.d["continue_from"]),
         "\n:key: Key Context: " \o PyFormat(recovery.d["key_context"])>>

Footer == <<"\n==================================================",
            "Ready for new session recovery! :rocket:">>

HeaderLines(s) ==
    <<"# Context Summary",
      "\nGenerated: " \o PyFormat(s.generated_at),
      "Session: " \o PyFormat(s.session_id)>>

\* the Completion line of the Project Status section
CompletionLine(project) ==
    "- Completion: " \o PyFormat(project["completed_tasks"]) \o "/"
    \o PyFormat(project["total_tasks"]) \o " tasks ("
    \o PercentStr(project["completion_rate"]) \o "%)"

ProjectHead(project) ==
    <<"\n## Project Status",
      "**" \o PyFormat(project["name"]) \o "** - " \o PyFormat(project["description"]),
      "- Current Phase: Phase " \o PyFormat(project["phase"])>>

PendingLine(project) ==
    LET shown == Prefix(project["pending_tasks"].items, PendingCap)
    IN "- Pending: " \o Join(", ", [i \in 1..Len(shown) |-> PyFormat(shown[i].d["name"])])

\* getattr(obj, name) succeeds
HasAttr(obj, name) == name \in DOMAIN obj

\* _to_text(summary): the lines appended so far, and the exception that ended it
\* ("none": it returned "\n".join(lines))
_to_text(s) ==
    LET project == s.project.d
        head == HeaderLines(s) \o ProjectHead(project)
    IN IF ~IsNumber(project["completion_rate"])
       THEN [lines |-> head, exc |-> "ValueError"]
       ELSE IF Truthy(project["pending_tasks"])
               /\ ~AllHave(Prefix(project["pending_tasks"].items, PendingCap), "name")
       THEN [lines |-> Append(head, CompletionLine(project)), exc |-> "KeyError"]
       ELSE LET upto == Append(head, CompletionLine(project))
                        \o (IF Truthy(project["pending_tasks"])
                            THEN <<PendingLine(project)>> ELSE <<>>)
            IN IF ~HasAttr(s, "pending_tasks")
               THEN [lines |-> upto, exc |-> "AttributeError"]
               ELSE [lines |-> upto
                               \o PendingSection(s.pending_tasks)
                               \o DecisionSection(s.tech_decisions)
                               \o CodeSection(s.code_context)
                               \o HistorySection(s.conversation_history)
                               \o RecoverySection(s.recovery_instructions)
                               \o Footer,
                     exc |-> "none"]

NotRendered == [lines |-> <<>>, exc |-> "not called"]

----------------------------------------------------------------------------
(* generate, save, recover, auto_detect *)

NoSummary == [version |-> PyNone]

Version == "1.0"

\* generate(session_id, output_format) of a ContextSummarizer constructed at
\* `timestamp`: [exc, summary, rendered, outputs]
generate(session_id, output_format, timestamp) ==
    LET failed(e) == [exc |-> e, summary |-> NoSummary, rendered |-> NotRendered,
                      outputs |-> <<>>]
        loaded == _load_project_status
    IN IF loaded.exc # "none" THEN failed(loaded.exc)
       ELSE
       LET project == loaded.val
           decisions == _load_tech_decisions
           code == _load_code_context
           history == _load_conversation_history
           continue_from == _get_continue_from(project)
           key_context == _get_key_context(project)
       IN IF continue_from.exc # "none" THEN failed(continue_from.exc)
          ELSE IF key_context.exc # "none" THEN failed(key_context.exc)
          ELSE
          LET recovery == [read_first |-> StrList(<<"README.md", "AGENTS.md">>),
                           continue_from |-> PyStr(continue_from.val),
                           key_context |-> PyStr(key_context.val)]
              assembled == [version |-> PyStr(Version),
                            generated_at |-> PyStr(timestamp),
                            session_id |-> PyStr(session_id),
                            project |-> asdict(project),
                            tech_decisions |->
                                PyList([i \in 1..Len(decisions) |-> asdict(decisions[i])]),
                            code_context |-> asdict(code),
                            conversation_history |-> asdict(history),
                            recovery_instructions |-> asdict(recovery)]
              \* the renderings of the record, once it is built
              Output(built) ==
                  LET json == IF output_format \in {"json", "both"}
                              THEN [json |-> _to_json(built)] ELSE <<>>
                      text == IF output_format \in {"text", "both"}
                              THEN _to_text(built) ELSE NotRendered
                  IN IF text.exc \notin {"none", "not called"}
                     THEN [exc |-> text.exc, summary |-> built, rendered |-> text,
                           outputs |-> <<>>]
                     ELSE [exc |-> "none", summary |-> built, rendered |-> text,
                           outputs |-> IF text.exc = "none"
                                       THEN json @@ [text |-> text.lines] ELSE json]
          IN CHOOSE r \in {Output(built) : built \in {assembled}} : TRUE

\* recover(), base_path the project root: Ok(PyNone), Ok(a ContextSummary), or the exception raised
recover ==
    LET file == artifacts
    IN IF file.kind = "absent" THEN Ok(PyNone)
       ELSE IF file.kind = "garbage" THEN Raise("JSONDecodeError")
       ELSE LET data == json_load(file.doc)
            IN IF data.t # "dict" THEN Raise("TypeError")
               ELSE Construct(ContextSummaryFields, data.d)

TokensPerMB == 100
ContextWindow == 200000
ThresholdNum == 8
ThresholdDen == 10

\* _estimate_token_usage(): the fraction num/den
_estimate_token_usage ==
    IF psutil.kind = "rss"
    THEN [num |-> Min(psutil.mb * TokensPerMB, ContextWindow), den |-> ContextWindow]
    ELSE [num |-> 0, den |-> 1]

\* the comparison written >= instead of >
auto_detect_inclusive ==
    LET token_usage == _estimate_token_usage
    IN [should |-> token_usage.num * ThresholdDen >= ThresholdNum * token_usage.den,
        usage |-> token_usage]

auto_detect ==
    LET token_usage == _estimate_token_usage
    IN [should |-> token_usage.num * ThresholdDen > ThresholdNum * token_usage.den,
        usage |-> token_usage]

----------------------------------------------------------------------------
(* The commands of main().  Each is one run of the script: what a run holds *)
(* in memory is gone when the next one starts; only the files stay.         *)

Formats == {"text", "json", "both"}
SessionIds == {"session_1", "session_2"}
Timestamps == {"2026-01-01T00:00:00+00:00"}

NotRun == [exit |-> -1, exc |-> "not run", saved |-> {}]
NotRecovered == [ret |-> Ok(PyNone), exit |-> -1, stderr |-> "not run"]
NotDetected == [should |-> FALSE, usage |-> [num |-> -1, den |-> 1]]

TextFile(content) == [kind |-> "text", lines |-> content]

\* save(outputs) on each of the two files; base_path is the project root
SavedJson(file, outputs) ==
    IF "json" \in DOMAIN outputs THEN JsonFile(outputs["json"]) ELSE file
SavedText(file, outputs) ==
    IF "text" \in DOMAIN outputs THEN TextFile(outputs["text"]) ELSE file

\* main(), no --recover, --auto-detect or --output: generate() then save()
MainGenerate(session_id, output_format, timestamp) ==
    LET r == generate(session_id, output_format, timestamp)
    IN /\ summary' = r.summary
       /\ rendered' = r.rendered
       /\ IF r.exc = "none"
          THEN /\ artifacts' = SavedJson(artifacts, r.outputs)
               /\ reports' = SavedText(reports, r.outputs)
               /\ genResult' = [exit |-> 0, exc |-> "none", saved |-> DOMAIN r.outputs]
          ELSE /\ UNCHANGED <<artifacts, reports>>
               /\ genResult' = [exit |-> 1, exc |-> r.exc, saved |-> {}]
       /\ recResult' = NotRecovered
       /\ detResult' = NotDetected
       /\ UNCHANGED env

\* main() with --recover: recover() on the project root
MainRecover ==
    LET r == recover
    IN /\ recResult' =
            IF r.exc # "none" THEN [ret |-> r, exit |-> 1, stderr |-> "Traceback"]
            ELSE IF r.val = PyNone
            THEN [ret |-> r, exit |-> 1, stderr |-> "No previous summary found"]
            ELSE [ret |-> r, exit |-> 0, stderr |-> ""]
       /\ summary' = NoSummary
       /\ rendered' = NotRendered
       /\ genResult' = NotRun
       /\ detResult' = NotDetected
       /\ UNCHANGED <<env, artifacts, reports>>

\* main() with --auto-detect
MainAutoDetect ==
    /\ detResult' = auto_detect
    /\ summary' = NoSummary
    /\ rendered' = NotRendered
    /\ genResult' = NotRun
    /\ recResult' = NotRecovered
    /\ UNCHANGED <<env, artifacts, reports>>

----------------------------------------------------------------------------
(* The project directories the commands start in *)

SeqsUpTo(S, n) == UNION {[1..k -> S] : k \in 0..n}

Marks(n, a, b) == [i \in 1..n |-> IF i % 2 = 1 THEN a ELSE b]

AgentsText(completed, total) ==
    [kind |-> "text",
     content |-> <<"text">> \o Marks(completed, "[x]", "CHECKMARK")
                 \o Marks(total, "Task", "RENWU")]

AgentsDocs ==
    {[kind |-> "absent"], [kind |-> "unreadable"]}
    \cup {AgentsText(c, t) : c \in 0..MaxMarks, t \in 0..MaxMarks}

JInt(n) == JNumber(FALSE, n, 1)

JTask(id, name, priority) ==
    JObject([id |-> JInt(id), name |-> JString(name), priority |-> JString(priority)])

ConfigObjects ==
    {[name |-> JString("Demo"), phase |-> JInt(2)],
     [completion_rate |-> JNumber(TRUE, 1, 2)],
     [total_tasks |-> JInt(45), completed_tasks |-> JInt(30),
      completion_rate |-> JNumber(TRUE, 2, 3)],
     [total_tasks |-> JInt(0)],
     [total_tasks |-> JInt(0), completed_tasks |-> JInt(0), completion_rate |-> JInt(0)],
     [pending_tasks |-> JArray(<<JTask(7, "parser", "high"), JTask(8, "docs", "low")>>)],
     [pending_tasks |-> JArray(<<JTask(7, "parser", "medium")>>),
      completion_rate |-> JNumber(TRUE, 1, 8)],
     [pending_tasks |-> JArray(<<JObject([id |-> JInt(7)])>>),
      completion_rate |-> JInt(0)],
     [owner |-> JString("team"), completion_rate |-> JInt(0)],
     [completion_rate |-> JString("high")]}

ConfigFiles ==
    {Absent, Garbage, JsonFile(JArray(<<JInt(1)>>)),
     JsonFile(JArray(<<JArray(<<JString("name"), JString("Pairs")>>), JInt(1)>>))}
    \cup {JsonFile(JObject(o)) : o \in ConfigObjects}

\* "Storage" as the characters of a document
Chars(str) == [i \in 1..Len(str) |-> SubSeq(str, i, i)]

DecisionLinesOf ==
    {Chars("- Storage: SQLite, single file\n"), Chars("- Queue: none yet\n"),
     Chars("Decisions of the team\n")}

\* the documents of at most n of these lines
DecisionDocsUpTo(n) ==
    {[kind |-> "absent"], [kind |-> "unreadable"]}
    \cup {[kind |-> "text", content |-> Flatten(c)] : c \in SeqsUpTo(DecisionLinesOf, n)}

DecisionDocs == DecisionDocsUpTo(MaxEntries)

SrcListing(py, other) ==
    [i \in 1..(py + other) |->
        IF i <= py THEN [name |-> "src/m" \o ToString(i) \o ".py", py |-> TRUE]
        ELSE [name |-> "src/d" \o ToString(i - py) \o ".txt", py |-> FALSE]]

GitLines(n) == [i \in 1..n |-> [pad |-> TRUE, text |-> "M src/m" \o ToString(i) \o ".py"]]

GitOutcomes ==
    {[kind |-> "raise"]}
    \cup {[kind |-> "exit", rc |-> rc, out |-> GitLines(n)] : rc \in {0, 128}, n \in 0..MaxGit}

RootNames ==
    {"src", "tests", "scripts", "requirements.txt", "docker-compose.yml"}

MemorySizes == {0, 800, 1599, 1600, 1601, 1620, 2000, 4000}

PsutilOutcomes == {[kind |-> "raise"]} \cup {[kind |-> "rss", mb |-> m] : m \in MemorySizes}

\* a session_summary.json left in the project root by an earlier run or another writer
StoredDoc ==
    [version |-> JString("1.0"),
     generated_at |-> JString("2025-12-31T00:00:00+00:00"),
     session_id |-> JString("session_0"),
     project |-> JObject([name |-> JString("Project")]),
     tech_decisions |-> JArray(<<>>),
     code_context |-> JObject([current_files |-> JArray(<<>>)]),
     conversation_history |-> JObject([key_discussions |-> JArray(<<>>)]),
     recovery_instructions |-> JObject([read_first |-> JArray(<<>>)])]

Without(f, key) == [k \in DOMAIN f \ {key} |-> f[k]]

StoredArtifacts ==
    {Garbage,
     JsonFile(JObject(StoredDoc)),
     JsonFile(JArray(<<JObject(StoredDoc)>>)),
     JsonFile(JObject(DictUpdate(StoredDoc, [owner |-> JString("team")])))}
    \cup {JsonFile(JObject(Without(StoredDoc, k))) : k \in ContextSummaryFields}
    \cup {JsonFile(JObject(DictUpdate(StoredDoc, [version |-> JInt(1)]))),
          JsonFile(JObject(DictUpdate(StoredDoc, [project |-> JString("Project")]))),
          JsonFile(JObject(DictUpdate(StoredDoc, [tech_decisions |-> JNull]))),
          JsonFile(JObject(DictUpdate(StoredDoc, [session_id |-> JArray(<<>>)])))}

\* the directory every family of starting states varies from
Baseline ==
    /\ agentsMd = AgentsText(1, 2)
    /\ projectJson = Absent
    /\ decisionsMd = [kind |-> "absent"]
    /\ srcFiles = <<>>
    /\ cfgExtra = [json |-> 0, yaml |-> 0]
    /\ rootExtra = {}
    /\ gitStatus = [kind |-> "raise"]
    /\ psutil = [kind |-> "raise"]

NothingRun ==
    /\ reports = Absent
    /\ summary = NoSummary
    /\ rendered = NotRendered
    /\ genResult = NotRun
    /\ recResult = NotRecovered
    /\ detResult = NotDetected

InitProject ==
    /\ agentsMd \in AgentsDocs
    /\ projectJson \in ConfigFiles
    /\ decisionsMd = [kind |-> "absent"]
    /\ srcFiles = <<>> /\ cfgExtra = [json |-> 0, yaml |-> 0] /\ rootExtra = {}
    /\ gitStatus = [kind |-> "raise"] /\ psutil = [kind |-> "raise"]

\* every kind of status document with every kind of decisions document and of
\* override document, and every decisions document with the baseline
InitDecisions ==
    /\ \/ /\ decisionsMd \in DecisionDocsUpTo(1)
          /\ agentsMd \in {[kind |-> "absent"], [kind |-> "unreadable"], AgentsText(1, 2)}
          /\ projectJson \in
                {Absent, Garbage,
                 JsonFile(JObject([completion_rate |-> JNumber(TRUE, 1, 2)])),
                 JsonFile(JObject([owner |-> JString("team"), completion_rate |-> JInt(0)]))}
       \/ /\ decisionsMd \in DecisionDocs
          /\ agentsMd = AgentsText(1, 2) /\ projectJson = Absent
    /\ srcFiles = <<>> /\ cfgExtra = [json |-> 0, yaml |-> 0] /\ rootExtra = {}
    /\ gitStatus = [kind |-> "raise"] /\ psutil = [kind |-> "raise"]

InitFiles ==
    /\ \/ /\ srcFiles \in {SrcListing(p, o) : p \in 0..MaxPy, o \in 0..MaxOther}
          /\ cfgExtra \in {[json |-> 0, yaml |-> 0], [json |-> MaxCfg, yaml |-> MaxCfg]}
       \/ /\ srcFiles \in {<<>>, SrcListing(MaxPy, MaxOther)}
          /\ cfgExtra \in [json : 0..MaxCfg, yaml : 0..MaxCfg]
    /\ projectJson \in {Absent, JsonFile(JObject([phase |-> JInt(2)]))}
    /\ (projectJson = Absent \/ srcFiles # <<>>)
    /\ agentsMd = AgentsText(1, 2) /\ decisionsMd = [kind |-> "absent"]
    /\ rootExtra = {}
    /\ gitStatus = [kind |-> "raise"] /\ psutil = [kind |-> "raise"]

InitGit ==
    /\ gitStatus \in GitOutcomes
    /\ agentsMd = AgentsText(1, 2) /\ projectJson = Absent
    /\ decisionsMd = [kind |-> "absent"]
    /\ srcFiles = <<>> /\ cfgExtra = [json |-> 0, yaml |-> 0] /\ rootExtra = {}
    /\ psutil = [kind |-> "raise"]

InitRoot ==
    /\ rootExtra \in SUBSET RootNames
    /\ agentsMd = AgentsText(1, 2) /\ projectJson = Absent
    /\ decisionsMd = [kind |-> "absent"]
    /\ srcFiles = <<>> /\ cfgExtra = [json |-> 0, yaml |-> 0]
    /\ gitStatus = [kind |-> "raise"] /\ psutil = [kind |-> "raise"]

InitPsutil ==
    /\ psutil \in PsutilOutcomes
    /\ agentsMd = AgentsText(1, 2) /\ projectJson = Absent
    /\ decisionsMd = [kind |-> "absent"]
    /\ srcFiles = <<>> /\ cfgExtra = [json |-> 0, yaml |-> 0] /\ rootExtra = {}
    /\ gitStatus = [kind |-> "raise"]

Init ==
    /\ NothingRun
    /\ \/ /\ artifacts = Absent
          /\ \/ InitProject
             \/ InitDecisions
             \/ InitFiles
             \/ InitGit
             \/ InitRoot
             \/ InitPsutil
       \/ /\ artifacts \in StoredArtifacts
          /\ Baseline

Next ==
    \/ \E session_id \in SessionIds, output_format \in Formats, timestamp \in Timestamps :
            MainGenerate(session_id, output_format, timestamp)
    \/ MainRecover
    \/ MainAutoDetect

Spec == Init /\ [][Next]_vars

----------------------------------------------------------------------------
(* _to_text on its own: records of any content, not only those generate() builds *)

MaxTasks == 4       \* pending tasks of a record
MaxListed == 6      \* technical decisions of a record

Priorities == {"high", "medium", "low"}
Statuses == {"confirmed", "pending", "rejected"}

TaskOf(i, priority) ==
    PyDict([id |-> PyInt(i), name |-> PyStr("task_" \o ToString(i)),
            priority |-> PyStr(priority)])

DecisionOf(i, status) ==
    asdict(TechDecision("decision_" \o ToString(i), status,
                        IF i % 2 = 1 THEN "reason_" \o ToString(i) ELSE ""))

RecordOf(tasks, decisions, completed, total) ==
    [version |-> PyStr(Version),
     generated_at |-> PyStr("2026-01-01T00:00:00+00:00"),
     session_id |-> PyStr("session_1"),
     project |-> PyDict(
        [name |-> PyStr("Project"), description |-> PyStr("A coding project"),
         phase |-> PyInt(1), total_tasks |-> PyInt(total),
         completed_tasks |-> PyInt(completed),
         completion_rate |-> IF total > 0 THEN PyFloat(completed, total) ELSE PyInt(0),
         pending_tasks |-> PyList(tasks)]),
     tech_decisions |-> PyList(decisions),
     code_context |-> asdict(
        [current_files |-> StrList(<<"src/m1.py">>),
         recent_changes |-> StrList(<<>>),
         architecture_patterns |-> StrList(<<"src">>)]),
     conversation_history |-> asdict(_load_conversation_history),
     recovery_instructions |-> asdict(
        [read_first |-> StrList(<<"README.md", "AGENTS.md">>),
         continue_from |-> PyStr("Phase 1 completion"),
         key_context |-> PyStr("Project - Phase 1")])]

TaskLists ==
    {[i \in 1..Len(ps) |-> TaskOf(i, ps[i])] : ps \in SeqsUpTo(Priorities, MaxTasks)}

DecisionLists ==
    {[i \in 1..Len(ss) |-> DecisionOf(i, ss[i])] : ss \in SeqsUpTo(Statuses, MaxListed)}

TextRecords ==
    {RecordOf(ts, <<DecisionOf(1, "confirmed")>>, 30, 45) : ts \in TaskLists}
    \cup {RecordOf(<<>>, ds, 30, 45) : ds \in DecisionLists}
    \cup {RecordOf(<<TaskOf(1, "high")>>, <<>>, c, 8) : c \in 0..8}

InitText ==
    /\ Baseline
    /\ artifacts = Absent
    /\ reports = Absent
    /\ summary \in TextRecords
    /\ rendered = NotRendered
    /\ genResult = NotRun
    /\ recResult = NotRecovered
    /\ detResult = NotDetected

\* _to_text(summary) of the record at hand
RenderText ==
    /\ rendered.exc = "not called"
    /\ rendered' = _to_text(summary)
    /\ UNCHANGED <<env, artifacts, reports, summary, genResult, recResult, detResult>>

NextText == RenderText

SpecText == InitText /\ [][NextText]_vars

----------------------------------------------------------------------------
(* generate() over decisions documents of any text *)

DecisionAlphabet == {"-", ":", " ", "\n", "a"}

\* the i-th bullet line of a long document
EntryText(i) ==
    Chars("- decision_" \o ToString(i) \o ": reason_" \o ToString(i) \o "\n")

LongDocs ==
    {Flatten([i \in 1..n |-> EntryText(i)]) : n \in 0..MaxLines}
    \cup {Chars("# Decisions\n") \o Flatten([i \in 1..n |-> EntryText(i)]) \o Chars("end\n") :
              n \in 0..MaxLines}

SampleLines ==
    DecisionLinesOf
    \cup {Chars("- Cache:\n"), Chars("Use well-known: yes\n"), Chars("  - Retry:  3 times \n"),
          <<"BULLET">> \o Chars(" Log: json\r\n"), Chars("\n")}

DecisionTexts ==
    {[kind |-> "absent"], [kind |-> "unreadable"]}
    \cup {[kind |-> "text", content |-> c] : c \in SeqsUpTo(DecisionAlphabet, MaxChars)}
    \cup {[kind |-> "text", content |-> c] : c \in LongDocs}
    \cup {[kind |-> "text", content |-> Flatten(c)] : c \in SeqsUpTo(SampleLines, MaxEntries)}

InitDecisionTexts ==
    /\ agentsMd = AgentsText(1, 2)
    /\ projectJson = Absent
    /\ decisionsMd \in DecisionTexts
    /\ srcFiles = <<>>
    /\ cfgExtra = [json |-> 0, yaml |-> 0]
    /\ rootExtra = {}
    /\ gitStatus = [kind |-> "raise"]
    /\ psutil = [kind |-> "raise"]
    /\ artifacts = Absent
    /\ NothingRun

\* main() with --format json
GenerateJson ==
    /\ genResult = NotRun
    /\ \E timestamp \in Timestamps : MainGenerate("session_1", "json", timestamp)

NextDecisions == GenerateJson

SpecDecisions == InitDecisionTexts /\ [][NextDecisions]_vars

----------------------------------------------------------------------------
(* Properties *)

Generated == genResult.exit # -1
Built == summary # NoSummary
Recovered == recResult.exit # -1
Detected == detResult # NotDetected

C2_NeverFails == Generated => (genResult.exit = 0 /\ genResult.exc = "none" /\ Built)

\* C3: default filling. With no status, override or decisions document, the record
\* holds the default project (completion_rate 0, no pending task) and exactly the
\* default decision.
C3_Defaults ==
    (/\ Generated
     /\ agentsMd.kind = "absent"
     /\ projectJson.kind = "absent"
     /\ decisionsMd.kind = "absent")
    => /\ Built
       /\ summary.project =
            PyDict([name |-> PyStr("Project"),
                    description |-> PyStr("A coding project"),
                    phase |-> PyInt(1),
                    total_tasks |-> PyInt(50),
                    completed_tasks |-> PyInt(0),
                    completion_rate |-> PyInt(0),
                    pending_tasks |-> PyList(<<>>)])
       /\ summary.tech_decisions =
            PyList(<<PyDict([decision |-> PyStr("Standard architecture"),
                             status |-> PyStr("confirmed"),
                             reason |-> PyStr("Default decision for new projects")])>>)

\* the shape of a SummaryRecord, on the stored document
HasShape(file) ==
    /\ file.kind = "json"
    /\ file.doc.j = "object"
    /\ DOMAIN file.doc.members = ContextSummaryFields
    /\ \A k \in {"version", "generated_at", "session_id"} :
            file.doc.members[k].j = "string"
    /\ \A k \in {"project", "code_context", "conversation_history",
                 "recovery_instructions"} : file.doc.members[k].j = "object"
    /\ file.doc.members["tech_decisions"].j = "array"

\* C4: recovery tells absence from corruption. With no stored record recover
\* reports "not found"; with a stored text that has not the shape of a record
\* (a field missing, a field of the wrong type) it raises an error and returns
\* no record.
C4_AbsentOrCorrupt ==
    Recovered =>
        /\ artifacts.kind = "absent" => recResult.ret = Ok(PyNone)
        /\ (artifacts.kind # "absent" /\ ~HasShape(artifacts)) =>
                (recResult.ret.exc # "none" /\ recResult.exit # 0)

\* v = num/den, for a Python number v
IsRatio(v, num, den) ==
    /\ IsNumber(v)
    /\ IF v.t = "int" THEN v.n * den = num ELSE v.num * den = num * v.den

\* C5: completion rate. In every record built, completion_rate is
\* completed_tasks / total_tasks (0 when total_tasks is 0) and lies in [0, 1].
C5_CompletionRate ==
    Built =>
        LET project == summary.project.d
            completed == project["completed_tasks"].n
            total == project["total_tasks"].n
            rate == project["completion_rate"]
        IN /\ IF total > 0 THEN IsRatio(rate, completed, total) ELSE IsRatio(rate, 0, 1)
           /\ IsNumber(rate)
           /\ IF rate.t = "int" THEN rate.n \in {0, 1} ELSE rate.num <= rate.den

\* what each collector has to offer, before any cut
SrcCandidates == GlobSrcPy \o GlobSrcAll
CfgCandidates == GlobCfgJson \o GlobCfgYaml
FileCandidates == SrcCandidates \o CfgCandidates
ChangeCandidates ==
    IF gitStatus.kind = "exit" /\ gitStatus.rc = 0
    THEN [i \in 1..Len(gitStatus.out) |-> gitStatus.out[i].text]
    ELSE <<>>

CurrentFiles == summary.code_context.d["current_files"]
RecentChanges == summary.code_context.d["recent_changes"]
ArchitecturePatterns == summary.code_context.d["architecture_patterns"]

\* C6 as claimed: each sequence of the code context is exactly the prefix, of
\* length 15, 5 and 5, of its collector's candidate sequence.
C6_ExactPrefix ==
    Built =>
        /\ CurrentFiles = StrList(Prefix(FileCandidates, 15))
        /\ RecentChanges = StrList(Prefix(ChangeCandidates, 5))
        /\ ArchitecturePatterns = StrList(Prefix(ArchCandidates, 5))

\* C6, amended: current_files has at most 15 entries, recent_changes and
\* architecture_patterns at most 5; the latter two are exactly the prefixes of
\* their candidate sequences; current_files is the first 10 source-directory
\* candidates followed by the config candidates, cut to 15, in the original order,
\* and so the exact 15-prefix whenever there are at most 10 source candidates.
C6_Bounded ==
    Built =>
        /\ Len(CurrentFiles.items) <= 15
        /\ Len(RecentChanges.items) <= 5
        /\ Len(ArchitecturePatterns.items) <= 5
        /\ RecentChanges = StrList(Prefix(ChangeCandidates, 5))
        /\ ArchitecturePatterns = StrList(Prefix(ArchCandidates, 5))
        /\ CurrentFiles = StrList(Prefix(Prefix(SrcCandidates, 10) \o CfgCandidates, 15))
        /\ Len(SrcCandidates) <= 10 => CurrentFiles = StrList(Prefix(FileCandidates, 15))

\* more than 10 source candidates and more than 15 in all: both cuts act
C6_Witness ==
    /\ Built
    /\ Len(SrcCandidates) > 10
    /\ Len(FileCandidates) > 15
    /\ Len(CurrentFiles.items) = 15
    /\ CurrentFiles.items[11] = PyStr("config/project.json")

HasBlock(ls, block) ==
    \E k \in 1..(Len(ls) + 1) :
        /\ k + Len(block) - 1 <= Len(ls)
        /\ SubSeq(ls, k, k + Len(block) - 1) = block

StrContains(str, sub) ==
    \E k \in 1..(Len(str) + 1) :
        /\ k + Len(sub) - 1 <= Len(str)
        /\ SubSeq(str, k, k + Len(sub) - 1) = sub

PendingTasks == summary.project.d["pending_tasks"]

\* the bucket of a priority as claimed: its first 3 tasks, in the given order
ClaimedBucket(p, title) ==
    LET tasks == PendingTasks.items
        first == Prefix(Select(tasks, [i \in 1..Len(tasks) |->
                                          tasks[i].d["priority"] = PyStr(p)]), 3)
    IN IF first = <<>> THEN <<>>
       ELSE <<title>> \o [i \in 1..Len(first) |-> TaskLine(first[i])]

\* C7: priority buckets. For a record with pending tasks the narrative is
\* rendered, shows the first 3 high tasks and the first 3 medium tasks in the
\* given order, and shows no low task anywhere.
C7_PriorityBuckets ==
    (rendered.exc # "not called" /\ Truthy(PendingTasks)) =>
        /\ rendered.exc = "none"
        /\ HasBlock(rendered.lines, ClaimedBucket("high", ":red_circle: High Priority:"))
        /\ HasBlock(rendered.lines,
                    ClaimedBucket("medium", ":yellow_circle: Medium Priority:"))
        /\ \A i \in 1..Len(PendingTasks.items), k \in 1..Len(rendered.lines) :
                PendingTasks.items[i].d["priority"] = PyStr("low")
                => ~StrContains(rendered.lines[k], PendingTasks.items[i].d["name"].s)

\* the Technical Decisions section as claimed: the first 5 confirmed entries
ClaimedDecisions ==
    LET ds == summary.tech_decisions.items
        first == Prefix(Select(ds, [i \in 1..Len(ds) |->
                                       ds[i].d["status"] = PyStr("confirmed")]), 5)
    IN <<"\n## Technical Decisions", ":check_mark: Confirmed:">>
       \o Flatten([i \in 1..Len(first) |-> DecisionLines(first[i])])
       \o <<"\n## Code Context">>

\* C8: decision filtering. For a record with technical decisions the narrative
\* lists exactly the first 5 confirmed entries, in the given order, and no
\* pending or rejected entry.
C8_ConfirmedOnly ==
    (rendered.exc # "not called" /\ Truthy(summary.tech_decisions)) =>
        /\ rendered.exc = "none"
        /\ HasBlock(rendered.lines, ClaimedDecisions)

\* C9: readiness threshold. auto_detect recommends a summary exactly when the
\* usage signal, the resident megabytes over the 2000 MB of a full window capped
\* at 1, is strictly above 0.8; when the signal cannot be read it returns
\* not-recommended with signal 0.
C9_Threshold ==
    Detected =>
        IF psutil.kind = "rss"
        THEN /\ detResult.should = (10 * Min(psutil.mb, 2000) > 8 * 2000)
             /\ detResult.usage.num * 2000 = Min(psutil.mb, 2000) * detResult.usage.den
        ELSE /\ detResult.should = FALSE
             /\ detResult.usage.num = 0

\* a signal of 0.81 recommends
C9_Witness ==
    /\ Detected
    /\ psutil = [kind |-> "rss", mb |-> 1620]
    /\ detResult.should
    /\ detResult.usage.num * 100 = 81 * detResult.usage.den

\* C10: percent formatting. The Completion line of the narrative and the
\* key_context string show completion_rate as the rounded whole percentage
\* followed by one percent sign.
C10_Percent ==
    (Built /\ rendered.exc # "not called" /\ Len(rendered.lines) >= 7) =>
        LET project == summary.project.d
            shown == ToString(PercentOf(project["completion_rate"])) \o "%"
        IN /\ rendered.lines[7] =
                "- Completion: " \o PyFormat(project["completed_tasks"]) \o "/"
                \o PyFormat(project["total_tasks"]) \o " tasks (" \o shown \o ")"
           /\ summary.recovery_instructions.d["key_context"] =
                PyStr(PyFormat(project["name"]) \o " - Phase "
                      \o PyFormat(project["phase"]) \o ", " \o shown \o " complete")

RECURSIVE SplitLines(_)
\* the lines of a document
SplitLines(content) ==
    IF content = <<>> THEN <<>>
    ELSE LET e == LineEnd(content, 1)
         IN <<SubSeq(content, 1, e)>> \o SplitLines(SubSeq(content, e + 2, Len(content)))

\* a line as a bullet entry: its first non-blank character is a bullet, and
\* "label: detail" follows the bullet on that line
BulletEntry(line) ==
    LET b == SpaceRun(line, 1) + 1
    IN IF b <= Len(line) /\ IsBullet(line[b]) THEN MatchAt(line, b) ELSE NoMatch

\* the bullet entries of the document at hand, in document order
ClaimedEntries ==
    IF decisionsMd.kind # "text" THEN <<>>
    ELSE LET ls == SplitLines(decisionsMd.content)
             es == Select(ls, [i \in 1..Len(ls) |-> BulletEntry(ls[i]) # NoMatch])
         IN [i \in 1..Len(es) |->
                asdict(TechDecision(Text(Strip(BulletEntry(es[i]).m.decision)), "confirmed",
                                    Text(Strip(BulletEntry(es[i]).m.reason))))]

\* C11: decision extraction. Whatever the decisions document (absent,
\* unreadable, without a bullet entry, or with any number of "label: detail"
\* bullet entries), generate does not fail over it, and the tech_decisions it
\* assembles has between 1 and 10 entries: the first 10 bullet entries of the
\* document in document order when there is one, and otherwise exactly the
\* default decision.
C11_DecisionExtraction ==
    Generated =>
        /\ genResult.exc = "none"
        /\ Len(summary.tech_decisions.items) \in 1..10
        /\ summary.tech_decisions.items =
                IF ClaimedEntries # <<>> THEN Prefix(ClaimedEntries, 10)
                ELSE <<asdict(TechDecision("Standard architecture", "confirmed",
                                           "Default decision for new projects"))>>

====
